---- MODULE Spec2Model ----
(***************************************************************************)
(* State-machine model of scripts/testdata.py: the mixed data-center       *)
(* topology generator (generate_device_id, the three pod builders and      *)
(* create_datacenter_topology).                                            *)
(*                                                                         *)
(* Representation choices:                                                 *)
(*  - python str values are TLA+ strings, built with \o as the f-strings   *)
(*    build them; a dc_location is kept as its sequence of characters so   *)
(*    that str.upper() is computed character by character;                 *)
(*  - a float scale factor s is the integer s * ScaleDen, and a float      *)
(*    num_leaves_per_spine_base b is the integer b * BaseDen; both         *)
(*    denominators are powers of two, so the python products are exact     *)
(*    and int() is truncation towards zero of an exact quotient;           *)
(*  - a layer tag is the sequence of its '_'-separated tokens, so that     *)
(*    startswith("FT_") / endswith("_SL") are computed on the tag;         *)
(*  - the random module is the variable rng, a cyclic sequence of draws.   *)
(***************************************************************************)
EXTENDS Integers, Sequences, FiniteSets, TLC

(***************************************************************************)
(* Bounds of the model.                                                    *)
(***************************************************************************)
\* period of the cyclic sequence of random draws
RngPeriod == 2
\* largest count passed to a pod builder that is called directly
MaxArg == 3
\* a pod builder is called directly only while the id counter is at most this
MaxStartCounter == 1

(***************************************************************************)
(* Inputs.                                                                 *)
(***************************************************************************)
\* denominator of the scale factors: scale = n / ScaleDen
ScaleDen == 16
\* denominator of num_leaves_per_spine_base: base = n / BaseDen
BaseDen == 4
\* scale factors -1.0, 0.0 and 0.25
ScaleValues == {-16, 0, 4}
TargetValues == {0, 100, 260}
\* num_leaves_per_spine_base 0, 0.25, 1, 1.75 and 3
LeafBaseValues == {0, 1, 4, 7, 12}
None == [given |-> FALSE, text |-> <<>>]
Location(chars) == [given |-> TRUE, text |-> chars]
\* the (dc_location, dc_location_delimiter) pairs of a call
LocationArgs == {<<None, ".">>, <<Location(<<>>), "-">>, <<Location(<<"a">>), "-">>,
                 <<Location(<<"T", "k", "1">>), ".">>}

(***************************************************************************)
(* Pure helpers.                                                           *)
(***************************************************************************)
Max(a, b) == IF a >= b THEN a ELSE b

\* int(n / d) for d > 0: truncation towards zero
int(n, d) == IF n >= 0 THEN n \div d ELSE -((-n) \div d)

\* n / d rounded to the nearest integer, n >= 0
RoundNearest(n, d) == (2 * n + d) \div (2 * d)

\* variant of ScaledSize: the floor max(1, ...) is forgotten
ScaledSizeNoFloor(base, scale) == int(base * scale, ScaleDen)

\* max(1, int(base * scale))
ScaledSize(base, scale) == Max(1, int(base * scale, ScaleDen))

DigitChar(d) ==
    CASE d = 0 -> "0" [] d = 1 -> "1" [] d = 2 -> "2" [] d = 3 -> "3"
      [] d = 4 -> "4" [] d = 5 -> "5" [] d = 6 -> "6" [] d = 7 -> "7"
      [] d = 8 -> "8" [] d = 9 -> "9"

RECURSIVE Decimal(_)
Decimal(n) == IF n < 10 THEN DigitChar(n)
              ELSE Decimal(n \div 10) \o DigitChar(n % 10)

\* f"{n:04d}" for n >= 0
Pad4(n) == CASE n < 10 -> "000" \o Decimal(n)
             [] n >= 10 /\ n < 100 -> "00" \o Decimal(n)
             [] n >= 100 /\ n < 1000 -> "0" \o Decimal(n)
             [] OTHER -> Decimal(n)

UpperChar(c) ==
    CASE c = "a" -> "A" [] c = "k" -> "K" [] c = "t" -> "T" [] OTHER -> c

RECURSIVE Upper(_)
\* str.upper() of a character sequence, as a string
Upper(chars) == IF chars = <<>> THEN ""
                ELSE UpperChar(Head(chars)) \o Upper(Tail(chars))

\* python truthiness of the dc_location argument
Truthy(loc) == loc.given /\ loc.text # <<>>

RECURSIVE SumCounts(_)
\* sum(d.get('count', 1) for d in seq)
SumCounts(seq) ==
    IF seq = <<>> THEN 0
    ELSE (IF "count" \in DOMAIN Head(seq) THEN Head(seq).count ELSE 1)
         + SumCounts(Tail(seq))

\* random.randint(a, b) on the draw r
randint(a, b, r) == IF r = 0 THEN a ELSE b

\* random.choice(seq) on the draw r
random_choice(seq, r) == seq[1 + (r % Len(seq))]

(***************************************************************************)
(* State.                                                                  *)
(***************************************************************************)
VARIABLES
    device_id_counter,             \* module global
    global_dc_location_suffix,     \* module global
    global_dc_location_delimiter,  \* module global
    rng,                           \* state of the random module
    pc,                            \* position of the interpreter
    caller,                        \* "dc" or "direct": who called the pod builder
    t,                             \* iterations completed of the current loop
    params,                        \* arguments of create_datacenter_topology
    all_devices,
    all_connections,
    core_interconnect_switches,
    border_leaf_switches,
    args,                          \* arguments of the running pod builder
    devices,                       \* locals of the running pod builder
    connections,
    core_switches,                 \* core_switches / spine_switches / core_spine_switches
    agg_switches,                  \* agg_switches / agg_spine_switches
    access_switches,               \* access_switches / leaf_switches / edge_leaf_switches
    pod,                           \* value returned by the last pod builder
    topology,                      \* value returned by create_datacenter_topology
    done,                          \* which function returned last
    issued                         \* log of generate_device_id calls of the current call

globals == <<global_dc_location_suffix, global_dc_location_delimiter>>
dcFrame == <<params, all_devices, all_connections, core_interconnect_switches,
             border_leaf_switches>>
podLists == <<core_switches, agg_switches, access_switches>>
podFrame == <<args, devices, connections, core_switches, agg_switches, access_switches>>
results == <<pod, topology, done>>
vars == <<device_id_counter, global_dc_location_suffix, global_dc_location_delimiter,
          rng, pc, caller, t, params, all_devices, all_connections,
          core_interconnect_switches, border_leaf_switches, args, devices,
          connections, core_switches, agg_switches, access_switches, pod,
          topology, done, issued>>

NoParams == [fat_tree_scale |-> 0, spine_leaf_scale |-> 0, three_tier_scale |-> 0,
             total_target_devices |-> 0, dc_location |-> None,
             dc_location_delimiter |-> ""]
NoArgs == [add_servers |-> FALSE]
NoPod == [devices |-> <<>>, connections |-> <<>>]
NoTopology == [datacenter_name |-> "", parameters |-> NoParams,
               summary |-> [total_network_devices_generated |-> 0,
                            total_server_groups_generated |-> 0,
                            estimated_total_individual_servers |-> 0],
               layers_and_pods |-> [DC_Interconnect_Layer |-> <<>>, Border_Layer |-> <<>>,
                                    Fat_Tree_Pod |-> <<>>, Spine_Leaf_Pod |-> <<>>,
                                    Three_Tier_Pod |-> <<>>, Endpoint_Layer |-> <<>>],
               connections |-> <<>>]

Init ==
    /\ device_id_counter = 0
    /\ global_dc_location_suffix = ""
    /\ global_dc_location_delimiter = ""
    /\ rng \in [1..RngPeriod -> 0..1]
    /\ pc = "idle"
    /\ caller = "direct"
    /\ t = 0
    /\ params = NoParams
    /\ all_devices = <<>>
    /\ all_connections = <<>>
    /\ core_interconnect_switches = <<>>
    /\ border_leaf_switches = <<>>
    /\ args = NoArgs
    /\ devices = <<>>
    /\ connections = <<>>
    /\ core_switches = <<>>
    /\ agg_switches = <<>>
    /\ access_switches = <<>>
    /\ pod = NoPod
    /\ topology = NoTopology
    /\ done = "none"
    /\ issued = <<>>

(***************************************************************************)
(* Identifier allocator.                                                   *)
(***************************************************************************)
IncrCounter(c) == c + 1

\* the f-strings of generate_device_id
FormatId(prefix, n, delimiter, suffix) ==
    IF suffix # ""
    THEN prefix \o "-" \o Pad4(n) \o delimiter \o suffix
    ELSE prefix \o "-" \o Pad4(n)

\* the value generate_device_id(prefix) returns in the current state
generate_device_id(prefix) ==
    FormatId(prefix, IncrCounter(device_id_counter),
             global_dc_location_delimiter, global_dc_location_suffix)

\* the effect of one generate_device_id(prefix) call
Allocate(prefix) ==
    /\ device_id_counter' = IncrCounter(device_id_counter)
    /\ issued' = Append(issued, [prefix |-> prefix, id |-> generate_device_id(prefix)])

\* one random draw
NextDraw == Head(rng)
Advance == rng' = Append(Tail(rng), Head(rng))

\* variant of ServerId: the switch id is left out of the server id
ServerIdWithoutSwitch(switch_id) == "Server-" \o "Group"

\* f"Server-{switch_id}"
ServerId(switch_id) == "Server-" \o switch_id

\* a pod builder starts with empty locals
EnterPod(who) ==
    /\ caller' = who
    /\ devices' = <<>>
    /\ connections' = <<>>
    /\ core_switches' = <<>>
    /\ agg_switches' = <<>>
    /\ access_switches' = <<>>
    /\ t' = 0

(***************************************************************************)
(* create_datacenter_topology: reset, Interconnect layer, Border layer.    *)
(***************************************************************************)
\* variant of NewLocationSuffix: the else branch leaves the global as it was
NewLocationSuffixKept(dc_location, old) ==
    IF Truthy(dc_location) THEN Upper(dc_location.text) ELSE old

\* the value assigned to global_dc_location_suffix; old is its previous value
NewLocationSuffix(dc_location, old) ==
    IF Truthy(dc_location) THEN Upper(dc_location.text) ELSE ""

\* the value assigned to global_dc_location_delimiter
NewLocationDelimiter(dc_location, dc_location_delimiter, old) ==
    IF Truthy(dc_location) THEN dc_location_delimiter ELSE ""

CallDatacenter ==
    /\ pc = "idle"
    /\ \E fts \in ScaleValues, sls \in ScaleValues, tts \in ScaleValues,
          total \in TargetValues, la \in LocationArgs :
           /\ params' = [fat_tree_scale |-> fts, spine_leaf_scale |-> sls,
                         three_tier_scale |-> tts, total_target_devices |-> total,
                         dc_location |-> la[1], dc_location_delimiter |-> la[2]]
           /\ global_dc_location_suffix' =
                  NewLocationSuffix(la[1], global_dc_location_suffix)
           /\ global_dc_location_delimiter' =
                  NewLocationDelimiter(la[1], la[2], global_dc_location_delimiter)
    /\ device_id_counter' = 0
    /\ issued' = <<>>
    /\ all_devices' = <<>>
    /\ all_connections' = <<>>
    /\ core_interconnect_switches' = <<>>
    /\ border_leaf_switches' = <<>>
    /\ pod' = NoPod
    /\ topology' = NoTopology
    /\ done' = "none"
    /\ args' = NoArgs
    /\ EnterPod("dc")
    /\ pc' = "dc_interconnect"
    /\ UNCHANGED rng

\* max(1, int(total_target_devices * 0.01)); for the targets of TargetValues the
\* float product truncates to the same integer as the exact quotient
NumCoreInterconnect(total_target_devices) ==
    Max(1, int(total_target_devices * 1, 100))

\* variant of NumBorderLeaf: round() in place of int()
NumBorderLeafRounded(total_target_devices) ==
    Max(1, RoundNearest(total_target_devices * 3, 100))

\* max(1, int(total_target_devices * 0.03))
NumBorderLeaf(total_target_devices) ==
    Max(1, int(total_target_devices * 3, 100))

DCInterconnectStep ==
    /\ pc = "dc_interconnect"
    /\ t < NumCoreInterconnect(params.total_target_devices)
    /\ LET core_id == generate_device_id("DCCore") IN
           /\ all_devices' = Append(all_devices,
                  [id |-> core_id, type |-> "DC_Core_Interconnect_Switch",
                   layer |-> <<"DC", "Interconnect">>])
           /\ core_interconnect_switches' = Append(core_interconnect_switches, core_id)
    /\ Allocate("DCCore")
    /\ t' = t + 1
    /\ UNCHANGED <<globals, rng, pc, caller, params, all_connections,
                   border_leaf_switches, podFrame, results>>

DCInterconnectDone ==
    /\ pc = "dc_interconnect"
    /\ t >= NumCoreInterconnect(params.total_target_devices)
    /\ pc' = "dc_border"
    /\ t' = 0
    /\ UNCHANGED <<device_id_counter, globals, rng, caller, dcFrame, podFrame,
                   results, issued>>

\* f"{delimiter}{suffix}" if suffix else ""
ExtSuffix == IF global_dc_location_suffix # ""
             THEN global_dc_location_delimiter \o global_dc_location_suffix
             ELSE ""

DCBorderStep ==
    /\ pc = "dc_border"
    /\ t < NumBorderLeaf(params.total_target_devices)
    /\ LET bl_id == generate_device_id("BL")
           uplink == IF core_interconnect_switches # <<>>
                     THEN <<[from |-> bl_id,
                             to |-> random_choice(core_interconnect_switches, NextDraw),
                             link_type |-> "L3_routed"]>>
                     ELSE <<>>
       IN  /\ all_devices' = Append(all_devices,
                  [id |-> bl_id, type |-> "Border_Leaf_Switch", layer |-> <<"Border">>])
           /\ border_leaf_switches' = Append(border_leaf_switches, bl_id)
           /\ all_connections' = all_connections \o uplink \o
                  << [from |-> bl_id, to |-> "External_ISP_Router" \o ExtSuffix,
                      link_type |-> "BGP_peering"],
                     [from |-> bl_id, to |-> "WAN_Router_or_SDWAN_Hub" \o ExtSuffix,
                      link_type |-> "WAN_connection"],
                     [from |-> bl_id, to |-> "Security_Appliance" \o ExtSuffix,
                      link_type |-> "Service_Chain"] >>
    /\ Allocate("BL")
    /\ IF core_interconnect_switches # <<>> THEN Advance ELSE UNCHANGED rng
    /\ t' = t + 1
    /\ UNCHANGED <<globals, pc, caller, params, core_interconnect_switches,
                   podFrame, results>>

(***************************************************************************)
(* Loops of the form                                                       *)
(*     if outer: for x in outer: for _ in range(n): body                   *)
(* run Len(outer) * n iterations; iteration t (from 0) has                  *)
(* x = outer[t \div n + 1].                                                 *)
(***************************************************************************)
CascadeTotal(outer, n) == IF outer # <<>> THEN Len(outer) * n ELSE 0
\* variant of CascadeOuter: every iteration uses the first outer element
CascadeOuterFirst(outer, n, k) == outer[1]

CascadeOuter(outer, n, k) == outer[(k \div n) + 1]

(***************************************************************************)
(* create_fat_tree_topology                                                *)
(***************************************************************************)
DCCallFatTree ==
    /\ pc = "dc_border"
    /\ t >= NumBorderLeaf(params.total_target_devices)
    /\ args' = [core_spines |-> ScaledSize(4, params.fat_tree_scale),
                agg_spines_per_core |-> ScaledSize(5, params.fat_tree_scale),
                edge_leaves_per_agg |-> ScaledSize(20, params.fat_tree_scale),
                add_servers |-> TRUE]
    /\ EnterPod("dc")
    /\ pc' = "ft_core"
    /\ UNCHANGED <<device_id_counter, globals, rng, dcFrame, results, issued>>

FTCoreStep ==
    /\ pc = "ft_core"
    /\ t < args.core_spines
    /\ LET cs_id == generate_device_id("FTCS") IN
           /\ devices' = Append(devices,
                  [id |-> cs_id, type |-> "FatTree_Core_Spine", layer |-> <<"FT", "Core">>])
           /\ core_switches' = Append(core_switches, cs_id)
    /\ Allocate("FTCS")
    /\ t' = t + 1
    /\ UNCHANGED <<globals, rng, pc, caller, dcFrame, args, connections,
                   agg_switches, access_switches, results>>

FTCoreDone ==
    /\ pc = "ft_core"
    /\ t >= args.core_spines
    /\ pc' = "ft_agg"
    /\ t' = 0
    /\ UNCHANGED <<device_id_counter, globals, rng, caller, dcFrame, podFrame,
                   results, issued>>

FTAggStep ==
    /\ pc = "ft_agg"
    /\ t < CascadeTotal(core_switches, args.agg_spines_per_core)
    /\ LET cs_id == CascadeOuter(core_switches, args.agg_spines_per_core, t)
           as_id == generate_device_id("FTAS")
       IN  /\ devices' = Append(devices,
                  [id |-> as_id, type |-> "FatTree_Agg_Spine",
                   layer |-> <<"FT", "Aggregation">>])
           /\ agg_switches' = Append(agg_switches, as_id)
           /\ connections' = Append(connections,
                  [from |-> as_id, to |-> cs_id, link_type |-> "L3_routed_ECMP"])
    /\ Allocate("FTAS")
    /\ t' = t + 1
    /\ UNCHANGED <<globals, rng, pc, caller, dcFrame, args, core_switches,
                   access_switches, results>>

FTAggDone ==
    /\ pc = "ft_agg"
    /\ t >= CascadeTotal(core_switches, args.agg_spines_per_core)
    /\ pc' = "ft_edge"
    /\ t' = 0
    /\ UNCHANGED <<device_id_counter, globals, rng, caller, dcFrame, podFrame,
                   results, issued>>

FTEdgeStep ==
    /\ pc = "ft_edge"
    /\ t < CascadeTotal(agg_switches, args.edge_leaves_per_agg)
    /\ LET as_id == CascadeOuter(agg_switches, args.edge_leaves_per_agg, t)
           el_id == generate_device_id("FTEL")
           server_id == ServerId(el_id)
       IN  /\ devices' = Append(devices,
                  [id |-> el_id, type |-> "FatTree_Edge_Leaf", layer |-> <<"FT", "Edge">>])
                \o (IF args.add_servers
                    THEN <<[id |-> server_id, type |-> "Server_Group",
                            layer |-> <<"Endpoint">>,
                            count |-> randint(30, 60, NextDraw)]>>
                    ELSE <<>>)
           /\ access_switches' = Append(access_switches, el_id)
           /\ connections' = Append(connections,
                  [from |-> el_id, to |-> as_id,
                   link_type |-> "L3_routed_ECMP_L2_VLAN_overlay"])
                \o (IF args.add_servers
                    THEN <<[from |-> el_id, to |-> server_id,
                            link_type |-> "L2_access_VXLAN"]>>
                    ELSE <<>>)
    /\ Allocate("FTEL")
    /\ IF args.add_servers THEN Advance ELSE UNCHANGED rng
    /\ t' = t + 1
    /\ UNCHANGED <<globals, pc, caller, dcFrame, args, core_switches,
                   agg_switches, results>>

FTReturn ==
    /\ pc = "ft_edge"
    /\ t >= CascadeTotal(agg_switches, args.edge_leaves_per_agg)
    /\ pod' = [devices |-> devices, connections |-> connections,
               core_spine_outputs |-> core_switches]
    /\ pc' = "dc_ft_merge"
    /\ t' = 0
    /\ UNCHANGED <<device_id_counter, globals, rng, caller, dcFrame, podFrame,
                   topology, done, issued>>

\* variant of MergeDevices: the pod's devices are not merged
MergeDevicesDropped(all, new) == all

\* all_devices.extend(pod["devices"])
MergeDevices(all, new) == all \o new

DCMergeFatTree ==
    /\ pc = "dc_ft_merge"
    /\ all_devices' = MergeDevices(all_devices, pod.devices)
    /\ all_connections' = all_connections \o pod.connections
    /\ pc' = "dc_ft_uplink"
    /\ t' = 0
    /\ UNCHANGED <<device_id_counter, globals, rng, caller, params,
                   core_interconnect_switches, border_leaf_switches, podFrame,
                   results, issued>>

\* the uplink loops run only if both lists are non-empty
UplinkTotal(outputs, interconnect) ==
    IF outputs # <<>> /\ interconnect # <<>> THEN Len(outputs) ELSE 0

FTUplinkType == "L3_routed"

DCFatTreeUplinkStep ==
    /\ pc = "dc_ft_uplink"
    /\ t < UplinkTotal(pod.core_spine_outputs, core_interconnect_switches)
    /\ all_connections' = Append(all_connections,
           [from |-> pod.core_spine_outputs[t + 1],
            to |-> random_choice(core_interconnect_switches, NextDraw),
            link_type |-> FTUplinkType])
    /\ Advance
    /\ t' = t + 1
    /\ UNCHANGED <<device_id_counter, globals, pc, caller, params, all_devices,
                   core_interconnect_switches, border_leaf_switches, podFrame,
                   results, issued>>

(***************************************************************************)
(* create_spine_leaf_topology                                              *)
(***************************************************************************)
\* a direct call of a pod builder: the locals of earlier calls are gone
ClearDatacenterFrame ==
    /\ params' = NoParams
    /\ all_devices' = <<>>
    /\ all_connections' = <<>>
    /\ core_interconnect_switches' = <<>>
    /\ border_leaf_switches' = <<>>
    /\ pod' = NoPod
    /\ topology' = NoTopology
    /\ done' = "none"
    /\ issued' = <<>>

DCCallSpineLeaf ==
    /\ pc = "dc_ft_uplink"
    /\ t >= UplinkTotal(pod.core_spine_outputs, core_interconnect_switches)
    /\ args' = [num_spines |-> ScaledSize(8, params.spine_leaf_scale),
                num_leaves_per_spine_base |->
                    ScaledSize(40, params.spine_leaf_scale) * BaseDen,
                add_servers |-> TRUE]
    /\ EnterPod("dc")
    /\ pc' = "sl_spine"
    /\ UNCHANGED <<device_id_counter, globals, rng, dcFrame, results, issued>>

CallSpineLeaf ==
    /\ pc = "idle"
    /\ device_id_counter <= MaxStartCounter
    /\ \E n \in 0..MaxArg, b \in LeafBaseValues, srv \in BOOLEAN :
           args' = [num_spines |-> n, num_leaves_per_spine_base |-> b,
                    add_servers |-> srv]
    /\ ClearDatacenterFrame
    /\ EnterPod("direct")
    /\ pc' = "sl_spine"
    /\ UNCHANGED <<device_id_counter, globals, rng>>

SLSpineStep ==
    /\ pc = "sl_spine"
    /\ t < args.num_spines
    /\ LET spine_id == generate_device_id("SP") IN
           /\ devices' = Append(devices,
                  [id |-> spine_id, type |-> "Spine_Switch", layer |-> <<"Spine", "SL">>])
           /\ core_switches' = Append(core_switches, spine_id)
    /\ Allocate("SP")
    /\ t' = t + 1
    /\ UNCHANGED <<globals, rng, pc, caller, dcFrame, args, connections,
                   agg_switches, access_switches, results>>

SLSpineDone ==
    /\ pc = "sl_spine"
    /\ t >= args.num_spines
    /\ pc' = "sl_leaf"
    /\ t' = 0
    /\ UNCHANGED <<device_id_counter, globals, rng, caller, dcFrame, podFrame,
                   results, issued>>

\* variant of NumLeavesToGenerate: the floor to one leaf is forgotten
NumLeavesNoFloor(num_leaves_per_spine_base, num_spines) ==
    int(num_leaves_per_spine_base * num_spines, BaseDen)

\* num_leaves_to_generate, with num_leaves_per_spine_base in units of 1/BaseDen
NumLeavesToGenerate(num_leaves_per_spine_base, num_spines) ==
    LET n == int(num_leaves_per_spine_base * num_spines, BaseDen)
    IN  IF n = 0 /\ num_spines > 0 THEN 1 ELSE n

\* iterations of the leaf loop, which runs only if spine_switches is non-empty
LeafTotal(spine_switches, num_leaves_per_spine_base, num_spines) ==
    IF spine_switches # <<>>
    THEN NumLeavesToGenerate(num_leaves_per_spine_base, num_spines)
    ELSE 0

\* variant of LeafSpineConnections: only the first spine is connected
LeafFirstSpineOnly(leaf_id, spine_switches) ==
    <<[from |-> leaf_id, to |-> spine_switches[1], link_type |-> "L3_routed_ECMP"]>>

\* for spine_id in spine_switches: connections.append(...)
LeafSpineConnections(leaf_id, spine_switches) ==
    [k \in 1..Len(spine_switches) |->
        [from |-> leaf_id, to |-> spine_switches[k], link_type |-> "L3_routed_ECMP"]]

SLLeafStep ==
    /\ pc = "sl_leaf"
    /\ t < LeafTotal(core_switches, args.num_leaves_per_spine_base, args.num_spines)
    /\ LET leaf_id == generate_device_id("LF")
           server_id == ServerId(leaf_id)
       IN  /\ devices' = Append(devices,
                  [id |-> leaf_id, type |-> "Leaf_Switch", layer |-> <<"Leaf", "SL">>])
                \o (IF args.add_servers
                    THEN <<[id |-> server_id, type |-> "Server_Group",
                            layer |-> <<"Endpoint">>,
                            count |-> randint(20, 48, NextDraw)]>>
                    ELSE <<>>)
           /\ access_switches' = Append(access_switches, leaf_id)
           /\ connections' = connections \o LeafSpineConnections(leaf_id, core_switches)
                \o (IF args.add_servers
                    THEN <<[from |-> leaf_id, to |-> server_id,
                            link_type |-> "L2_access_VXLAN"]>>
                    ELSE <<>>)
    /\ Allocate("LF")
    /\ IF args.add_servers THEN Advance ELSE UNCHANGED rng
    /\ t' = t + 1
    /\ UNCHANGED <<globals, pc, caller, dcFrame, args, core_switches,
                   agg_switches, results>>

SLReturn ==
    /\ pc = "sl_leaf"
    /\ t >= LeafTotal(core_switches, args.num_leaves_per_spine_base, args.num_spines)
    /\ pod' = [devices |-> devices, connections |-> connections,
               spine_outputs |-> core_switches]
    /\ pc' = IF caller = "dc" THEN "dc_sl_merge" ELSE "idle"
    /\ done' = IF caller = "dc" THEN done ELSE "sl"
    /\ t' = 0
    /\ UNCHANGED <<device_id_counter, globals, rng, caller, dcFrame, podFrame,
                   topology, issued>>

DCMergeSpineLeaf ==
    /\ pc = "dc_sl_merge"
    /\ all_devices' = MergeDevices(all_devices, pod.devices)
    /\ all_connections' = all_connections \o pod.connections
    /\ pc' = "dc_sl_uplink"
    /\ t' = 0
    /\ UNCHANGED <<device_id_counter, globals, rng, caller, params,
                   core_interconnect_switches, border_leaf_switches, podFrame,
                   results, issued>>

SLUplinkType == "L3_routed"

DCSpineLeafUplinkStep ==
    /\ pc = "dc_sl_uplink"
    /\ t < UplinkTotal(pod.spine_outputs, core_interconnect_switches)
    /\ all_connections' = Append(all_connections,
           [from |-> pod.spine_outputs[t + 1],
            to |-> random_choice(core_interconnect_switches, NextDraw),
            link_type |-> SLUplinkType])
    /\ Advance
    /\ t' = t + 1
    /\ UNCHANGED <<device_id_counter, globals, pc, caller, params, all_devices,
                   core_interconnect_switches, border_leaf_switches, podFrame,
                   results, issued>>

(***************************************************************************)
(* create_three_tier_topology                                              *)
(***************************************************************************)
DCCallThreeTier ==
    /\ pc = "dc_sl_uplink"
    /\ t >= UplinkTotal(pod.spine_outputs, core_interconnect_switches)
    /\ args' = [num_core |-> ScaledSize(2, params.three_tier_scale),
                num_agg_per_core |-> ScaledSize(10, params.three_tier_scale),
                num_access_per_agg |-> ScaledSize(5, params.three_tier_scale),
                add_servers |-> TRUE]
    /\ EnterPod("dc")
    /\ pc' = "tt_core"
    /\ UNCHANGED <<device_id_counter, globals, rng, dcFrame, results, issued>>

CallThreeTier ==
    /\ pc = "idle"
    /\ device_id_counter <= MaxStartCounter
    /\ \E nc \in 0..MaxArg, na \in 0..MaxArg, ns \in 0..MaxArg, srv \in BOOLEAN :
           args' = [num_core |-> nc, num_agg_per_core |-> na,
                    num_access_per_agg |-> ns, add_servers |-> srv]
    /\ ClearDatacenterFrame
    /\ EnterPod("direct")
    /\ pc' = "tt_core"
    /\ UNCHANGED <<device_id_counter, globals, rng>>

TTCoreStep ==
    /\ pc = "tt_core"
    /\ t < args.num_core
    /\ LET core_id == generate_device_id("C") IN
           /\ devices' = Append(devices,
                  [id |-> core_id, type |-> "Core_Switch", layer |-> <<"Core", "3T">>])
           /\ core_switches' = Append(core_switches, core_id)
    /\ Allocate("C")
    /\ t' = t + 1
    /\ UNCHANGED <<globals, rng, pc, caller, dcFrame, args, connections,
                   agg_switches, access_switches, results>>

TTCoreDone ==
    /\ pc = "tt_core"
    /\ t >= args.num_core
    /\ pc' = "tt_agg"
    /\ t' = 0
    /\ UNCHANGED <<device_id_counter, globals, rng, caller, dcFrame, podFrame,
                   results, issued>>

TTAggStep ==
    /\ pc = "tt_agg"
    /\ t < CascadeTotal(core_switches, args.num_agg_per_core)
    /\ LET core_id == CascadeOuter(core_switches, args.num_agg_per_core, t)
           agg_id == generate_device_id("A")
       IN  /\ devices' = Append(devices,
                  [id |-> agg_id, type |-> "Aggregation_Switch",
                   layer |-> <<"Aggregation", "3T">>])
           /\ agg_switches' = Append(agg_switches, agg_id)
           /\ connections' = Append(connections,
                  [from |-> agg_id, to |-> core_id, link_type |-> "L2_trunk_L3_routed"])
    /\ Allocate("A")
    /\ t' = t + 1
    /\ UNCHANGED <<globals, rng, pc, caller, dcFrame, args, core_switches,
                   access_switches, results>>

TTAggDone ==
    /\ pc = "tt_agg"
    /\ t >= CascadeTotal(core_switches, args.num_agg_per_core)
    /\ pc' = "tt_access"
    /\ t' = 0
    /\ UNCHANGED <<device_id_counter, globals, rng, caller, dcFrame, podFrame,
                   results, issued>>

TTAccessStep ==
    /\ pc = "tt_access"
    /\ t < CascadeTotal(agg_switches, args.num_access_per_agg)
    /\ LET agg_id == CascadeOuter(agg_switches, args.num_access_per_agg, t)
           access_id == generate_device_id("AS")
           server_id == ServerId(access_id)
       IN  /\ devices' = Append(devices,
                  [id |-> access_id, type |-> "Access_Switch", layer |-> <<"Access", "3T">>])
                \o (IF args.add_servers
                    THEN <<[id |-> server_id, type |-> "Server_Group",
                            layer |-> <<"Endpoint">>,
                            count |-> randint(10, 20, NextDraw)]>>
                    ELSE <<>>)
           /\ access_switches' = Append(access_switches, access_id)
           /\ connections' = Append(connections,
                  [from |-> access_id, to |-> agg_id, link_type |-> "L2_trunk"])
                \o (IF args.add_servers
                    THEN <<[from |-> access_id, to |-> server_id,
                            link_type |-> "L2_access"]>>
                    ELSE <<>>)
    /\ Allocate("AS")
    /\ IF args.add_servers THEN Advance ELSE UNCHANGED rng
    /\ t' = t + 1
    /\ UNCHANGED <<globals, pc, caller, dcFrame, args, core_switches,
                   agg_switches, results>>

TTReturn ==
    /\ pc = "tt_access"
    /\ t >= CascadeTotal(agg_switches, args.num_access_per_agg)
    /\ pod' = [devices |-> devices, connections |-> connections,
               core_outputs |-> core_switches]
    /\ pc' = IF caller = "dc" THEN "dc_tt_merge" ELSE "idle"
    /\ done' = IF caller = "dc" THEN done ELSE "tt"
    /\ t' = 0
    /\ UNCHANGED <<device_id_counter, globals, rng, caller, dcFrame, podFrame,
                   topology, issued>>

DCMergeThreeTier ==
    /\ pc = "dc_tt_merge"
    /\ all_devices' = MergeDevices(all_devices, pod.devices)
    /\ all_connections' = all_connections \o pod.connections
    /\ pc' = "dc_tt_uplink"
    /\ t' = 0
    /\ UNCHANGED <<device_id_counter, globals, rng, caller, params,
                   core_interconnect_switches, border_leaf_switches, podFrame,
                   results, issued>>

\* variant of TTUplinkType: the link type of the other two pods
TTUplinkTypeCopied == "L3_routed"

TTUplinkType == "L3_routed_legacy"

DCThreeTierUplinkStep ==
    /\ pc = "dc_tt_uplink"
    /\ t < UplinkTotal(pod.core_outputs, core_interconnect_switches)
    /\ all_connections' = Append(all_connections,
           [from |-> pod.core_outputs[t + 1],
            to |-> random_choice(core_interconnect_switches, NextDraw),
            link_type |-> TTUplinkType])
    /\ Advance
    /\ t' = t + 1
    /\ UNCHANGED <<device_id_counter, globals, pc, caller, params, all_devices,
                   core_interconnect_switches, border_leaf_switches, podFrame,
                   results, issued>>

(***************************************************************************)
(* create_datacenter_topology: summary, layer buckets and return.          *)
(***************************************************************************)
\* variant of IsServerType: Server_Group is missing from the list
IsServerTypeServerOnly(type) == type \in {"Server"}

\* d["type"] in ["Server", "Server_Group"]
IsServerType(type) == type \in {"Server", "Server_Group"}
IsServerDevice(d) == IsServerType(d.type)
IsNetworkDevice(d) == ~IsServerType(d.type)

\* layer.startswith(token + "_") and layer.endswith("_" + token)
StartsWithToken(layer, token) == Len(layer) >= 2 /\ layer[1] = token
EndsWithToken(layer, token) == Len(layer) >= 2 /\ layer[Len(layer)] = token

InInterconnectLayer(d) == d.layer = <<"DC", "Interconnect">>
InBorderLayer(d) == d.layer = <<"Border">>
InFatTreePod(d) == StartsWithToken(d.layer, "FT")
InSpineLeafPod(d) == EndsWithToken(d.layer, "SL")
InThreeTierPod(d) == EndsWithToken(d.layer, "3T")

LayersAndPods(network_devices, server_devices) ==
    [DC_Interconnect_Layer |-> SelectSeq(network_devices, InInterconnectLayer),
     Border_Layer |-> SelectSeq(network_devices, InBorderLayer),
     Fat_Tree_Pod |-> SelectSeq(network_devices, InFatTreePod),
     Spine_Leaf_Pod |-> SelectSeq(network_devices, InSpineLeafPod),
     Three_Tier_Pod |-> SelectSeq(network_devices, InThreeTierPod),
     Endpoint_Layer |-> server_devices]

DCFinish ==
    /\ pc = "dc_tt_uplink"
    /\ t >= UplinkTotal(pod.core_outputs, core_interconnect_switches)
    /\ LET network_devices == SelectSeq(all_devices, IsNetworkDevice)
           server_devices == SelectSeq(all_devices, IsServerDevice)
           total_server_count_val == SumCounts(server_devices)
       IN  topology' =
             [datacenter_name |->
                  IF global_dc_location_suffix # ""
                  THEN "Mixed_Topology_DC" \o global_dc_location_delimiter
                           \o global_dc_location_suffix
                  ELSE "Mixed_Topology_DC_Default",
              parameters |-> params,
              summary |->
                  [total_network_devices_generated |-> Len(network_devices),
                   total_server_groups_generated |-> Len(server_devices),
                   estimated_total_individual_servers |-> total_server_count_val],
              layers_and_pods |-> LayersAndPods(network_devices, server_devices),
              connections |-> all_connections]
    /\ pc' = "idle"
    /\ done' = "dc"
    /\ t' = 0
    /\ UNCHANGED <<device_id_counter, globals, rng, caller, dcFrame, podFrame,
                   pod, issued>>

Next ==
    \/ CallDatacenter
    \/ DCInterconnectStep \/ DCInterconnectDone \/ DCBorderStep
    \/ DCCallFatTree \/ FTCoreStep \/ FTCoreDone \/ FTAggStep \/ FTAggDone
    \/ FTEdgeStep \/ FTReturn \/ DCMergeFatTree \/ DCFatTreeUplinkStep
    \/ DCCallSpineLeaf \/ CallSpineLeaf \/ SLSpineStep \/ SLSpineDone
    \/ SLLeafStep \/ SLReturn \/ DCMergeSpineLeaf \/ DCSpineLeafUplinkStep
    \/ DCCallThreeTier \/ CallThreeTier \/ TTCoreStep \/ TTCoreDone
    \/ TTAggStep \/ TTAggDone \/ TTAccessStep \/ TTReturn
    \/ DCMergeThreeTier \/ DCThreeTierUplinkStep
    \/ DCFinish

Spec == Init /\ [][Next]_vars

(***************************************************************************)
(* Vocabulary of the properties.                                           *)
(***************************************************************************)
\* create_datacenter_topology has returned
Returned == pc = "idle" /\ done = "dc"
\* create_spine_leaf_topology has returned, to a direct caller or to the composer
SLReturned == (pc = "idle" /\ done = "sl") \/ pc = "dc_sl_merge"
\* create_three_tier_topology has returned, to a direct caller or to the composer
TTReturned == (pc = "idle" /\ done = "tt") \/ pc = "dc_tt_merge"

Indices(seq) == 1..Len(seq)
IdsOf(seq) == {seq[k].id : k \in Indices(seq)}
OfType(seq, type) == {k \in Indices(seq) : seq[k].type = type}
OfLayer(seq, layer) == {k \in Indices(seq) : seq[k].layer = layer}
IdsOfType(seq, type) == {seq[k].id : k \in OfType(seq, type)}
Links(seq, from, to, link_type) ==
    {k \in Indices(seq) : seq[k].from = from /\ seq[k].to = to
                          /\ seq[k].link_type = link_type}
LinksFrom(seq, from, link_type) ==
    {k \in Indices(seq) : seq[k].from = from /\ seq[k].link_type = link_type}
LinksOfType(seq, link_type) == {k \in Indices(seq) : seq[k].link_type = link_type}

\* the devices of the returned topology, bucket after bucket
TopologyDevices ==
    topology.layers_and_pods.DC_Interconnect_Layer
    \o topology.layers_and_pods.Border_Layer
    \o topology.layers_and_pods.Fat_Tree_Pod
    \o topology.layers_and_pods.Spine_Leaf_Pod
    \o topology.layers_and_pods.Three_Tier_Pod
    \o topology.layers_and_pods.Endpoint_Layer

\* the suffix the arguments of this run ask for
RunSuffix ==
    IF params.dc_location.given /\ params.dc_location.text # <<>>
    THEN params.dc_location_delimiter \o Upper(params.dc_location.text)
    ELSE ""

Placeholders == {"External_ISP_Router" \o RunSuffix,
                 "WAN_Router_or_SDWAN_Hub" \o RunSuffix,
                 "Security_Appliance" \o RunSuffix}

(***************************************************************************)
(* C1: no two devices of the topology create_datacenter_topology returns   *)
(* have the same id.                                                       *)
(***************************************************************************)
C1_UniqueDeviceIds ==
    Returned =>
        \A i, j \in Indices(TopologyDevices) :
            i # j => TopologyDevices[i].id # TopologyDevices[j].id

\* a located run whose three pods all carry server groups has returned
C1_Witness ==
    /\ Returned
    /\ RunSuffix = "-A"
    /\ Cardinality(OfType(TopologyDevices, "Server_Group")) >= 10
    /\ Len(TopologyDevices) = Len(all_devices)
    /\ Len(TopologyDevices) >= 40

(***************************************************************************)
(* C2: every connection of the returned topology starts at a generated     *)
(* device and ends at a generated device or at one of the three external   *)
(* placeholders of this run; only Border devices connect to placeholders.  *)
(***************************************************************************)
C2_ConnectionsResolve ==
    Returned =>
        \A k \in Indices(topology.connections) :
            LET c == topology.connections[k] IN
                /\ c.from \in IdsOf(all_devices)
                /\ c.to \in IdsOf(all_devices) \cup Placeholders
                /\ c.to \in Placeholders
                       => c.from \in IdsOfType(all_devices, "Border_Leaf_Switch")
                /\ c.from \notin Placeholders

\* a located run with placeholder links, pod links and uplinks has returned
C2_Witness ==
    /\ Returned
    /\ RunSuffix = ".TK1"
    /\ \E k \in Indices(topology.connections) :
           topology.connections[k].to = "Security_Appliance.TK1"
    /\ \E k \in Indices(topology.connections) :
           /\ topology.connections[k].link_type = "L3_routed_legacy"
           /\ topology.connections[k].to \in
                  IdsOfType(all_devices, "DC_Core_Interconnect_Switch")
    /\ \E k \in Indices(topology.connections) :
           topology.connections[k].to \in IdsOfType(all_devices, "Server_Group")

(***************************************************************************)
(* C3: in a run of create_datacenter_topology the k-th id issued by        *)
(* generate_device_id(prefix) is prefix-k, k zero-padded to 4 digits,      *)
(* followed by the delimiter and uppercased location of this run when a    *)
(* location is configured and by nothing otherwise; the first id is        *)
(* DCCore-0001 plus that suffix, whatever ran before.                      *)
(***************************************************************************)
C3_IssuedIds ==
    caller = "dc" =>
        /\ \A k \in Indices(issued) :
               issued[k].id = issued[k].prefix \o "-" \o Pad4(k) \o RunSuffix
        /\ issued # <<>> => issued[1].id = "DCCore-0001" \o RunSuffix
        /\ (issued # <<>> /\ params.dc_location = Location(<<"a">>)
                /\ params.dc_location_delimiter = "-")
               => issued[1].id = "DCCore-0001-A"
        /\ (issued # <<>> /\ ~params.dc_location.given)
               => issued[1].id = "DCCore-0001"

\* a run with dc_location 'a' and delimiter '-' has issued more than nine ids
C3_Witness ==
    /\ Returned
    /\ params.dc_location = Location(<<"a">>)
    /\ issued[1].id = "DCCore-0001-A"
    /\ Len(issued) >= 12
    /\ issued[12].id = issued[12].prefix \o "-0012-A"

(***************************************************************************)
(* C4: whatever the scale factors and the target, the returned topology    *)
(* has at least one device in each of the ten network layers.              *)
(***************************************************************************)
NetworkLayers ==
    {<<"DC", "Interconnect">>, <<"Border">>, <<"FT", "Core">>, <<"FT", "Aggregation">>,
     <<"FT", "Edge">>, <<"Spine", "SL">>, <<"Leaf", "SL">>, <<"Core", "3T">>,
     <<"Aggregation", "3T">>, <<"Access", "3T">>}

C4_EveryLayerPopulated ==
    Returned => \A layer \in NetworkLayers : OfLayer(TopologyDevices, layer) # {}

\* a run with a negative, a zero and a truncating fractional scale and target 0
C4_Witness ==
    /\ Returned
    /\ params.fat_tree_scale < 0
    /\ params.spine_leaf_scale = 0
    /\ params.three_tier_scale > 0
    /\ (2 * params.three_tier_scale) \div ScaleDen = 0
    /\ Cardinality(OfLayer(TopologyDevices, <<"Core", "3T">>)) = 1
    /\ params.total_target_devices = 0
    /\ \A layer \in NetworkLayers : Cardinality(OfLayer(TopologyDevices, layer)) >= 1

(***************************************************************************)
(* C5, as claimed: the Interconnect and Border layers hold                  *)
(* max(1, round(total * 0.01)) and max(1, round(total * 0.03)) devices,     *)
(* round being rounding to the nearest integer.                            *)
(***************************************************************************)
C5_RoundedCounts ==
    Returned =>
        /\ Cardinality(OfType(all_devices, "DC_Core_Interconnect_Switch"))
               = Max(1, RoundNearest(params.total_target_devices, 100))
        /\ Cardinality(OfType(all_devices, "Border_Leaf_Switch"))
               = Max(1, RoundNearest(3 * params.total_target_devices, 100))

(***************************************************************************)
(* C5, amended: the Interconnect and Border layers hold                     *)
(* max(1, int(total * 0.01)) and max(1, int(total * 0.03)) devices, int     *)
(* being truncation (total = 100 gives 1 and 3).                           *)
(***************************************************************************)
C5_TruncatedCounts ==
    Returned =>
        /\ Cardinality(OfType(all_devices, "DC_Core_Interconnect_Switch"))
               = Max(1, params.total_target_devices \div 100)
        /\ Cardinality(OfType(all_devices, "Border_Leaf_Switch"))
               = Max(1, (3 * params.total_target_devices) \div 100)
        /\ params.total_target_devices = 100 =>
               /\ Cardinality(OfType(all_devices, "DC_Core_Interconnect_Switch")) = 1
               /\ Cardinality(OfType(all_devices, "Border_Leaf_Switch")) = 3

\* target 260: 2.6 and 7.8 are truncated to 2 and 7 devices
C5_Witness ==
    /\ Returned
    /\ params.total_target_devices = 260
    /\ Cardinality(OfType(all_devices, "DC_Core_Interconnect_Switch")) = 2
    /\ Cardinality(OfType(all_devices, "Border_Leaf_Switch")) = 7

(***************************************************************************)
(* C6, as claimed: with numSpines >= 1 the spine-leaf builder returns      *)
(* numSpines spines and round(numLeavesPerSpineBase * numSpines) leaves,   *)
(* or 1 leaf when that count is 0.                                         *)
(***************************************************************************)
C6_RoundedLeaves ==
    (SLReturned /\ args.num_spines >= 1) =>
        LET n == RoundNearest(args.num_leaves_per_spine_base * args.num_spines, BaseDen)
        IN  /\ Cardinality(OfType(pod.devices, "Spine_Switch")) = args.num_spines
            /\ Cardinality(OfType(pod.devices, "Leaf_Switch")) = IF n = 0 THEN 1 ELSE n

(***************************************************************************)
(* C6, amended: with numSpines >= 1 the spine-leaf builder returns         *)
(* numSpines spines and int(numLeavesPerSpineBase * numSpines) leaves      *)
(* (the product truncated), or 1 leaf when that count is 0; numSpines = 2, *)
(* base = 3 gives 2 spines and 6 leaves.                                   *)
(***************************************************************************)
C6_TruncatedLeaves ==
    (SLReturned /\ args.num_spines >= 1) =>
        LET n == (args.num_leaves_per_spine_base * args.num_spines) \div BaseDen
        IN  /\ Cardinality(OfType(pod.devices, "Spine_Switch")) = args.num_spines
            /\ Cardinality(OfType(pod.devices, "Leaf_Switch")) = IF n = 0 THEN 1 ELSE n
            /\ (args.num_spines = 2 /\ args.num_leaves_per_spine_base = 3 * BaseDen)
                   => Cardinality(OfType(pod.devices, "Leaf_Switch")) = 6

\* one spine and base 1.75: one leaf, where rounding would give two
C6_Witness ==
    /\ pc = "idle" /\ done = "sl"
    /\ args.num_spines = 1
    /\ args.num_leaves_per_spine_base = 7
    /\ Cardinality(OfType(pod.devices, "Spine_Switch")) = 1
    /\ Cardinality(OfType(pod.devices, "Leaf_Switch")) = 1

(***************************************************************************)
(* C7: create_three_tier_topology returns num_core core devices,           *)
(* num_core * num_agg_per_core aggregation devices, each with exactly one  *)
(* L2_trunk_L3_routed connection, to its core, and                         *)
(* num_core * num_agg_per_core * num_access_per_agg access devices, each   *)
(* with exactly one L2_trunk connection, to its aggregation device; with   *)
(* add_servers one Server_Group and one L2_access connection per access    *)
(* device, none otherwise; a zero count empties every layer below it.      *)
(***************************************************************************)
CoreSeq == SelectSeq(pod.devices, LAMBDA d : d.type = "Core_Switch")
AggSeq == SelectSeq(pod.devices, LAMBDA d : d.type = "Aggregation_Switch")
AccessSeq == SelectSeq(pod.devices, LAMBDA d : d.type = "Access_Switch")

C7_ThreeTierShape ==
    TTReturned =>
        LET nc == args.num_core
            na == args.num_agg_per_core
            ns == args.num_access_per_agg
            servers == IF args.add_servers THEN nc * na * ns ELSE 0
        IN  /\ Len(CoreSeq) = nc
            /\ Len(AggSeq) = nc * na
            /\ Len(AccessSeq) = nc * na * ns
            /\ Cardinality(OfType(pod.devices, "Server_Group")) = servers
            /\ Len(pod.devices) = nc + nc * na + nc * na * ns + servers
            /\ Len(pod.connections) = nc * na + nc * na * ns + servers
            /\ Cardinality(LinksOfType(pod.connections, "L2_access")) = servers
            /\ pod.core_outputs = [k \in Indices(CoreSeq) |-> CoreSeq[k].id]
            /\ \A k \in Indices(AggSeq) :
                   /\ Cardinality(LinksFrom(pod.connections, AggSeq[k].id,
                                            "L2_trunk_L3_routed")) = 1
                   /\ Cardinality(Links(pod.connections, AggSeq[k].id,
                                        CoreSeq[((k - 1) \div na) + 1].id,
                                        "L2_trunk_L3_routed")) = 1
            /\ \A k \in Indices(AccessSeq) :
                   /\ Cardinality(LinksFrom(pod.connections, AccessSeq[k].id,
                                            "L2_trunk")) = 1
                   /\ Cardinality(Links(pod.connections, AccessSeq[k].id,
                                        AggSeq[((k - 1) \div ns) + 1].id,
                                        "L2_trunk")) = 1
                   /\ args.add_servers =>
                          /\ Cardinality(LinksFrom(pod.connections, AccessSeq[k].id,
                                                   "L2_access")) = 1
                          /\ \E i \in OfType(pod.devices, "Server_Group") :
                                 Cardinality(Links(pod.connections, AccessSeq[k].id,
                                                   pod.devices[i].id, "L2_access")) = 1

\* the call (2, 3, 2, add_servers) has returned 2 + 6 + 12 + 12 devices, 30 connections
C7_Witness ==
    /\ pc = "idle" /\ done = "tt"
    /\ args = [num_core |-> 2, num_agg_per_core |-> 3, num_access_per_agg |-> 2,
               add_servers |-> TRUE]
    /\ Len(CoreSeq) = 2 /\ Len(AggSeq) = 6 /\ Len(AccessSeq) = 12
    /\ Cardinality(OfType(pod.devices, "Server_Group")) = 12
    /\ Len(pod.connections) = 30

(***************************************************************************)
(* C8: in the returned topology every top-level pod device (fat-tree core  *)
(* spine, spine, three-tier core) is the 'from' of a connection to an      *)
(* Interconnect device, of type L3_routed for the fat-tree and spine-leaf  *)
(* pods and L3_routed_legacy for the three-tier pod; no device of a lower  *)
(* pod layer is connected to an Interconnect device.                       *)
(***************************************************************************)
InterconnectIds == IdsOfType(all_devices, "DC_Core_Interconnect_Switch")
LowerPodTypes == {"FatTree_Agg_Spine", "FatTree_Edge_Leaf", "Leaf_Switch",
                  "Aggregation_Switch", "Access_Switch", "Server_Group"}
UplinkTypeOf(type) == IF type = "Core_Switch" THEN "L3_routed_legacy" ELSE "L3_routed"

C8_TopLevelUplinks ==
    Returned =>
        /\ \A k \in Indices(all_devices) :
               all_devices[k].type \in {"FatTree_Core_Spine", "Spine_Switch", "Core_Switch"}
                   => \E i \in LinksFrom(topology.connections, all_devices[k].id,
                                         UplinkTypeOf(all_devices[k].type)) :
                          topology.connections[i].to \in InterconnectIds
        /\ \A i \in Indices(topology.connections) :
               LET c == topology.connections[i] IN
                   \A k \in Indices(all_devices) :
                       all_devices[k].type \in LowerPodTypes =>
                           /\ ~(c.from = all_devices[k].id /\ c.to \in InterconnectIds)
                           /\ ~(c.to = all_devices[k].id /\ c.from \in InterconnectIds)

\* two Interconnect devices, two spines, and the spines are wired to different ones
C8_Witness ==
    /\ Returned
    /\ Cardinality(InterconnectIds) = 2
    /\ Cardinality(OfType(all_devices, "Spine_Switch")) = 2
    /\ \E i, j \in LinksOfType(topology.connections, "L3_routed") :
           /\ topology.connections[i].from \in IdsOfType(all_devices, "Spine_Switch")
           /\ topology.connections[j].from \in IdsOfType(all_devices, "Spine_Switch")
           /\ topology.connections[i].from # topology.connections[j].from
           /\ topology.connections[i].to # topology.connections[j].to
    /\ \E i \in LinksOfType(topology.connections, "L3_routed_legacy") :
           topology.connections[i].from \in IdsOfType(all_devices, "Core_Switch")

(***************************************************************************)
(* C9: create_spine_leaf_topology returns exactly one L3_routed_ECMP       *)
(* connection from every leaf to every spine, leaves * spines of them in   *)
(* all; without add_servers no Server_Group and no L2_access_VXLAN         *)
(* connection, with add_servers exactly one Server_Group per leaf.         *)
(***************************************************************************)
C9_FullBipartite ==
    SLReturned =>
        LET spines == IdsOfType(pod.devices, "Spine_Switch")
            leaves == IdsOfType(pod.devices, "Leaf_Switch")
        IN  /\ \A l \in leaves : \A s \in spines :
                   /\ Cardinality(Links(pod.connections, l, s, "L3_routed_ECMP")) = 1
                   /\ Cardinality({k \in Indices(pod.connections) :
                                       /\ pod.connections[k].from = l
                                       /\ pod.connections[k].to = s}) = 1
            /\ Cardinality(LinksOfType(pod.connections, "L3_routed_ECMP"))
                   = Cardinality(leaves) * Cardinality(spines)
            /\ Cardinality(leaves) = Cardinality(OfType(pod.devices, "Leaf_Switch"))
            /\ Cardinality(spines) = Cardinality(OfType(pod.devices, "Spine_Switch"))
            /\ ~args.add_servers =>
                   /\ OfType(pod.devices, "Server_Group") = {}
                   /\ LinksOfType(pod.connections, "L2_access_VXLAN") = {}
            /\ args.add_servers =>
                   /\ Cardinality(OfType(pod.devices, "Server_Group")) = Cardinality(leaves)
                   /\ \A l \in leaves :
                          /\ Cardinality(LinksFrom(pod.connections, l, "L2_access_VXLAN")) = 1
                          /\ Cardinality({i \in OfType(pod.devices, "Server_Group") :
                                 Links(pod.connections, l, pod.devices[i].id,
                                       "L2_access_VXLAN") # {}}) = 1

\* the call (2, 3, no servers) has returned 2 spines, 6 leaves, 12 connections
C9_Witness ==
    /\ pc = "idle" /\ done = "sl"
    /\ args = [num_spines |-> 2, num_leaves_per_spine_base |-> 3 * BaseDen,
               add_servers |-> FALSE]
    /\ Cardinality(OfType(pod.devices, "Spine_Switch")) = 2
    /\ Cardinality(OfType(pod.devices, "Leaf_Switch")) = 6
    /\ Cardinality(LinksOfType(pod.connections, "L3_routed_ECMP")) = 12
    /\ Len(pod.connections) = 12
    /\ Len(pod.devices) = 8

(***************************************************************************)
(* C10: in the returned topology every generated device is in exactly one  *)
(* of the six buckets, Endpoint_Layer holds exactly the Server_Group       *)
(* devices, the two summary counts add up to the number of generated       *)
(* devices and estimated_total_individual_servers is the sum of 'count'    *)
(* over the Server_Group devices.                                          *)
(***************************************************************************)
Buckets == {"DC_Interconnect_Layer", "Border_Layer", "Fat_Tree_Pod", "Spine_Leaf_Pod",
            "Three_Tier_Pod", "Endpoint_Layer"}
Occurrences(seq, d) == Cardinality({k \in Indices(seq) : seq[k] = d})

RECURSIVE SumOfCount(_)
SumOfCount(seq) == IF seq = <<>> THEN 0 ELSE Head(seq).count + SumOfCount(Tail(seq))

C10_BucketsAndSummary ==
    Returned =>
        /\ \A k \in Indices(all_devices) :
               /\ Cardinality({b \in Buckets :
                      Occurrences(topology.layers_and_pods[b], all_devices[k]) >= 1}) = 1
               /\ Occurrences(TopologyDevices, all_devices[k]) = 1
        /\ Len(TopologyDevices) = Len(all_devices)
        /\ topology.layers_and_pods.Endpoint_Layer
               = SelectSeq(all_devices, LAMBDA d : d.type = "Server_Group")
        /\ topology.summary.total_network_devices_generated
               + topology.summary.total_server_groups_generated = Len(all_devices)
        /\ topology.summary.total_server_groups_generated
               = Cardinality(OfType(all_devices, "Server_Group"))
        /\ topology.summary.estimated_total_individual_servers
               = SumOfCount(SelectSeq(all_devices, LAMBDA d : d.type = "Server_Group"))

\* server groups of all three pods, with different counts, are in Endpoint_Layer
C10_Witness ==
    /\ Returned
    /\ Len(topology.layers_and_pods.Endpoint_Layer) >= 3
    /\ \E i, j, k \in Indices(topology.layers_and_pods.Endpoint_Layer) :
           /\ topology.layers_and_pods.Endpoint_Layer[i].count = 60
           /\ topology.layers_and_pods.Endpoint_Layer[j].count = 20
           /\ topology.layers_and_pods.Endpoint_Layer[k].count \in {10, 20}
           /\ topology.layers_and_pods.Endpoint_Layer[k].id \in
                  {ServerId(d) : d \in IdsOfType(all_devices, "Access_Switch")}
    /\ Len(topology.layers_and_pods.Fat_Tree_Pod) >= 3
    /\ Len(topology.layers_and_pods.Spine_Leaf_Pod) >= 2
    /\ Len(topology.layers_and_pods.Three_Tier_Pod) >= 3
    /\ topology.summary.estimated_total_individual_servers >= 60
====
